---- MODULE Spec2Model ----
(***************************************************************************)
(* calendar-email-digest: the event normaliser (parse_date, parse_url,     *)
(* parse_event), the two renderers (generate_plaintext_email,              *)
(* generate_html_email), the assembler (get_events, format_events) and the *)
(* two entry points (main, WSGIApplication.__call__).                      *)
(*                                                                         *)
(* Text is modelled at character level: a Python string is a sequence of   *)
(* one-character strings, so strip, splitlines, split, lower, slicing and  *)
(* the URL regular expression are computed, not assumed.                   *)
(***************************************************************************)
EXTENDS Integers, Sequences, FiniteSets, TLC

VARIABLES mode, pc, raw, config, environ, events, generated, io, result

vars == <<mode, pc, raw, config, environ, events, generated, io, result>>

(***************************************************************************)
(* Bounds of the model.                                                    *)
(***************************************************************************)
\* most lines in a description handed to parse_event
MaxLines == 2
\* most items in a calendar API response
MaxEvents == 3

(***************************************************************************)
(* Python str primitives.                                                  *)
(***************************************************************************)
\* the whitespace characters of the model's alphabet (str.strip, \s)
Whitespace == {" ", "\n"}

Uppers == <<"A","B","C","D","E","F","G","H","I","J","K","L","M",
            "N","O","P","Q","R","S","T","U","V","W","X","Y","Z">>

Lowers == <<"a","b","c","d","e","f","g","h","i","j","k","l","m",
            "n","o","p","q","r","s","t","u","v","w","x","y","z">>

\* one character of str.lower()
LowerChar(c) ==
    IF \E i \in 1..Len(Uppers) : Uppers[i] = c
    THEN Lowers[CHOOSE i \in 1..Len(Uppers) : Uppers[i] = c]
    ELSE c

\* str.lower()
lower(s) == [i \in 1..Len(s) |-> LowerChar(s[i])]

RECURSIVE lstrip(_)
\* str.lstrip() with no argument
lstrip(s) ==
    IF s # <<>> /\ Head(s) \in Whitespace THEN lstrip(Tail(s)) ELSE s

RECURSIVE rstrip(_)
\* str.rstrip() with no argument
rstrip(s) ==
    IF s # <<>> /\ s[Len(s)] \in Whitespace
    THEN rstrip(SubSeq(s, 1, Len(s) - 1))
    ELSE s

\* str.strip()
strip(s) == rstrip(lstrip(s))

RECURSIVE lstrip_chars(_, _)
\* str.lstrip(chars)
lstrip_chars(s, chars) ==
    IF s # <<>> /\ Head(s) \in chars THEN lstrip_chars(Tail(s), chars) ELSE s

\* str.find(c) for a one-character c, 1-based; 0 when absent
find(s, c) ==
    IF \E i \in 1..Len(s) : s[i] = c
    THEN CHOOSE i \in 1..Len(s) : s[i] = c /\ \A j \in 1..(i - 1) : s[j] # c
    ELSE 0

\* str.rfind(c) for a one-character c, 1-based; 0 when absent
rfind(s, c) ==
    IF \E i \in 1..Len(s) : s[i] = c
    THEN CHOOSE i \in 1..Len(s) : s[i] = c /\ \A j \in (i + 1)..Len(s) : s[j] # c
    ELSE 0

RECURSIVE splitlines(_)
\* str.splitlines(): no empty last line after a final line break
splitlines(s) ==
    IF s = <<>> THEN <<>>
    ELSE LET i == find(s, "\n")
         IN  IF i = 0 THEN <<s>>
             ELSE <<SubSeq(s, 1, i - 1)>> \o splitlines(SubSeq(s, i + 1, Len(s)))

\* line.split(':', 1)
split_colon(line) ==
    LET i == find(line, ":")
    IN  IF i = 0 THEN <<line>>
        ELSE <<SubSeq(line, 1, i - 1), SubSeq(line, i + 1, Len(line))>>

\* s[p:].startswith(lit), p 1-based
StartsWithAt(s, p, lit) ==
    /\ p + Len(lit) - 1 <= Len(s)
    /\ SubSeq(s, p, p + Len(lit) - 1) = lit

(***************************************************************************)
(* The URL pattern  (https?:\/\/\S+?)(\.?([\s\n]|$))  of parse_url.        *)
(***************************************************************************)
\* length of the match of  https?:\/\/  at p; 0 when it does not match
SchemeLenAt(s, p) ==
    IF StartsWithAt(s, p, <<"h","t","t","p","s",":","/","/">>) THEN 8
    ELSE IF StartsWithAt(s, p, <<"h","t","t","p",":","/","/">>) THEN 7
    ELSE 0

\* length of the match of group 2,  \.?([\s\n]|$) , at q; -1 when it does not match
TailLenAt(s, q) ==
    IF q <= Len(s) /\ s[q] = "." /\ q + 1 > Len(s) THEN 1
    ELSE IF q <= Len(s) /\ s[q] = "." /\ s[q + 1] \in Whitespace THEN 2
    ELSE IF q > Len(s) THEN 0
    ELSE IF s[q] \in Whitespace THEN 1
    ELSE -1

\* the lengths k >= 1 the lazy  \S+?  can take after the scheme ending before q0
BodyLens(s, q0) ==
    {k \in 1..(Len(s) - q0 + 1) :
        /\ \A j \in q0..(q0 + k - 1) : s[j] \notin Whitespace
        /\ TailLenAt(s, q0 + k) >= 0}

\* whether the pattern matches starting at p
MatchesAt(s, p) ==
    /\ SchemeLenAt(s, p) > 0
    /\ BodyLens(s, p + SchemeLenAt(s, p)) # {}

\* the match object at p: group(0) and group(1)
MatchAt(s, p) ==
    LET q0 == p + SchemeLenAt(s, p)
        ks == BodyLens(s, q0)
        k  == CHOOSE x \in ks : \A y \in ks : x <= y
        e1 == q0 + k - 1
    IN  [found |-> TRUE,
         group0 |-> SubSeq(s, p, e1 + TailLenAt(s, e1 + 1)),
         group1 |-> SubSeq(s, p, e1)]

\* re.search(pattern, s): the leftmost match, or None
re_search(s) ==
    IF \E p \in 1..Len(s) : MatchesAt(s, p)
    THEN MatchAt(s, CHOOSE p \in 1..Len(s) :
                        MatchesAt(s, p) /\ \A r \in 1..(p - 1) : ~MatchesAt(s, r))
    ELSE [found |-> FALSE]

(***************************************************************************)
(* Event normaliser.                                                       *)
(***************************************************************************)
\* the slice bound of  timespec['dateTime'][:10]
DateLen == 10

\* parse_date raises KeyError: neither 'date' nor 'dateTime' in the timespec
parse_date_raises(timespec) ==
    "date" \notin DOMAIN timespec /\ "dateTime" \notin DOMAIN timespec

\* parse_date(timespec)
parse_date(timespec) ==
    IF "date" \in DOMAIN timespec THEN timespec.date
    ELSE SubSeq(timespec.dateTime, 1,
                IF Len(timespec.dateTime) < DateLen THEN Len(timespec.dateTime)
                ELSE DateLen)

\* event.get('description', '')
get_description(ev) ==
    IF "description" \in DOMAIN ev THEN ev.description ELSE <<>>

\* lines = [l.strip() for l in event.get('description', '').splitlines()]
url_lines(ev) ==
    LET ls == splitlines(get_description(ev))
    IN  [i \in 1..Len(ls) |-> strip(ls[i])]

\* the test of parse_url's inner loop on one line: its label is the term
label_matches(line, linkpref) ==
    LET parts == split_colon(line)
    IN  Len(parts) > 1 /\ lower(strip(parts[1])) = linkpref

\* m = re.search(..., parts[1]) on a line that has a colon
line_search(line) == re_search(split_colon(line)[2])

RECURSIVE scan_lines_outer(_, _, _, _)
\* parse_url's loops nested the other way round: lines outside, terms inside
scan_lines_outer(lines, linkprefs, i, j) ==
    IF j > Len(lines) THEN [found |-> FALSE]
    ELSE IF i > Len(linkprefs) THEN scan_lines_outer(lines, linkprefs, 1, j + 1)
    ELSE IF label_matches(lines[j], linkprefs[i]) /\ line_search(lines[j]).found
         THEN line_search(lines[j])
         ELSE scan_lines_outer(lines, linkprefs, i + 1, j)

\* parse_url's loops giving up at the first labelled line that holds no URL
scan_stop_at_miss(lines, linkprefs, i, j) ==
    LET hit == {p \in (1..Len(linkprefs)) \X (1..Len(lines)) :
                    label_matches(lines[p[2]], linkprefs[p[1]])}
        first == CHOOSE p \in hit : \A q \in hit :
                    p[1] < q[1] \/ (p[1] = q[1] /\ p[2] <= q[2])
    IN  IF hit = {} THEN [found |-> FALSE] ELSE line_search(lines[first[2]])

RECURSIVE scan(_, _, _, _)
\* the two loops of parse_url from term i, line j on: the match object that
\* is returned from inside the loops, or found = FALSE when they run out
scan(lines, linkprefs, i, j) ==
    IF i > Len(linkprefs) THEN [found |-> FALSE]
    ELSE IF j > Len(lines) THEN scan(lines, linkprefs, i + 1, 1)
    ELSE IF label_matches(lines[j], linkprefs[i]) /\ line_search(lines[j]).found
         THEN line_search(lines[j])
         ELSE scan(lines, linkprefs, i, j + 1)

\* parse_url raises KeyError: the loops ran out and the event has no htmlLink
parse_url_raises(ev, linkprefs) ==
    /\ ~scan(url_lines(ev), linkprefs, 1, 1).found
    /\ "htmlLink" \notin DOMAIN ev

\* parse_url with the fallback forgotten
parse_url_no_fallback(ev, linkprefs) ==
    LET m == scan(url_lines(ev), linkprefs, 1, 1)
    IN  IF m.found THEN m.group0 ELSE <<>>

\* parse_url(event, linkprefs): m.group(0) of the first hit, else htmlLink
parse_url(ev, linkprefs) ==
    LET m == scan(url_lines(ev), linkprefs, 1, 1)
    IN  IF m.found THEN m.group0 ELSE ev.htmlLink

\* parse_event raises (KeyError on a missing key) instead of returning
parse_event_raises(ev, linkprefs) ==
    \/ "start" \notin DOMAIN ev
    \/ "end" \notin DOMAIN ev
    \/ "summary" \notin DOMAIN ev
    \/ parse_date_raises(ev.start)
    \/ parse_date_raises(ev.end)
    \/ parse_url_raises(ev, linkprefs)

\* parse_event(event, linkprefs), where it returns
parse_event(ev, linkprefs) ==
    LET description == strip(get_description(ev))
        ls == splitlines(description)
    IN  [start |-> parse_date(ev.start),
         end |-> parse_date(ev.end),
         title |-> strip(ev.summary),
         summary |-> IF ls = <<>> THEN <<>> ELSE ls[1],
         description |-> description,
         url |-> parse_url(ev, linkprefs)]

(***************************************************************************)
(* Document renderer.  A template is an opaque configured string;          *)
(* template % mapping  is kept as the pair of the two, and  sep.join(parts)*)
(* as the separator with the parts in order.                               *)
(***************************************************************************)
\* template % d
Fmt(template, d) == [template |-> template, args |-> d]

\* sep.join(parts)
Join(sep, parts) == [sep |-> sep, parts |-> parts]

\* dict(d, **extra)
Merge(d, extra) ==
    [k \in DOMAIN d \cup DOMAIN extra |-> IF k \in DOMAIN extra THEN extra[k] ELSE d[k]]

\* ' ' * n  and  '-' * n
Repeat(c, n) == [i \in 1..n |-> c]

RECURSIVE NumDigits(_)
\* len(str(index)) for index >= 0
NumDigits(n) == IF n < 10 THEN 1 ELSE 1 + NumDigits(n \div 10)

\* the width of the rule between plaintext details: '-'*75
RuleLen == 75

\* datespec that always writes the range
datespec_always_range(ev, sep) == ev.start \o sep \o ev.end

\* datespec(event, sep)
datespec(ev, sep) ==
    IF ev.start = ev.end THEN ev.start ELSE ev.start \o sep \o ev.end

\* " &ndash; "
NdashSep == <<" ","&","n","d","a","s","h",";"," ">>

\* " -- "
DashSep == <<" ","-","-"," ">>

\* html_summary(event, template): no index is passed
html_summary(ev, template) ==
    Fmt(template, Merge(ev, [datespec |-> datespec(ev, NdashSep)]))

\* the two re.sub calls and the replace('\n', '<br>\n') of html_details,
\* kept as an uninterpreted wrapper of the description
html_description(description) == [autolinked_br |-> description]

\* html_details(event, index, template)
html_details(ev, index, template) ==
    Fmt(template, Merge(ev, [index |-> index,
                             datespec |-> datespec(ev, NdashSep),
                             description |-> html_description(ev.description)]))

\* generate_html_email(events, template, summary_template, details_template)
\* at wall-clock date now
generate_html_email(evs, template, summary_template, details_template, now) ==
    Fmt(template,
        [date |-> now,
         summary |-> Join(<<"\n">>,
                          [i \in 1..Len(evs) |-> html_summary(evs[i], summary_template)]),
         details |-> Join(<<"\n">>,
                          [i \in 1..Len(evs) |-> html_details(evs[i], i, details_template)])])

\* plaintext_summary(event, index, template)
plaintext_summary(ev, index, template) ==
    Fmt(template, Merge(ev, [index |-> index,
                             indent |-> Repeat(" ", NumDigits(index) + 2),
                             datespec |-> datespec(ev, DashSep)]))

\* plaintext_details numbering from the enumerate value itself (0-based)
plaintext_details_zero_based(ev, index, template) ==
    Fmt(template, Merge(ev, [index |-> index - 1,
                             datespec |-> datespec(ev, DashSep)]))

\* plaintext_details(event, index, template)
plaintext_details(ev, index, template) ==
    Fmt(template, Merge(ev, [index |-> index,
                             datespec |-> datespec(ev, DashSep)]))

\* generate_plaintext_email(events, template, summary_template, details_template)
\* at wall-clock date now
generate_plaintext_email(evs, template, summary_template, details_template, now) ==
    Fmt(template,
        [date |-> now,
         summary |-> Join(<<"\n">>,
                          [i \in 1..Len(evs) |-> plaintext_summary(evs[i], i, summary_template)]),
         details |-> Join(<<"\n","\n">> \o Repeat("-", RuleLen) \o <<"\n","\n">>,
                          [i \in 1..Len(evs) |-> plaintext_details(evs[i], i, details_template)])])

\* compose_email(sender, recipient, subject, html, plaintext)
compose_email(sender, recipient, subject, html, plaintext) ==
    [Subject |-> subject, From |-> sender, To |-> recipient,
     parts |-> << [subtype |-> "plain", payload |-> plaintext],
                  [subtype |-> "html", payload |-> html] >>]

\* send_email(msg, host, port, username, password): what it does to the SMTP server
send_email(msg, cfg) ==
    << [op |-> "connect"] >>
    \o (IF cfg.username THEN << [op |-> "login"] >> ELSE <<>>)
    \o << [op |-> "sendmail", from |-> msg.From, to |-> msg.To, data |-> msg],
          [op |-> "quit"] >>

(***************************************************************************)
(* Digest assembler.                                                       *)
(***************************************************************************)
\* get_events dropping the events parse_event cannot read
get_events_skip_malformed(cfg, response) ==
    IF "items" \notin DOMAIN response
    THEN [raised |-> TRUE, exc |-> "RuntimeError"]
    ELSE LET ok(e) == ~parse_event_raises(e, cfg.linkprefs)
             kept == SelectSeq(response.items, ok)
         IN  [raised |-> FALSE,
              value |-> [i \in 1..Len(kept) |-> parse_event(kept[i], cfg.linkprefs)]]

\* get_events(config) on the decoded API response: the list of parsed events,
\* or the exception that leaves it
get_events(cfg, response) ==
    IF "items" \notin DOMAIN response
    THEN [raised |-> TRUE, exc |-> "RuntimeError"]
    ELSE IF \E i \in 1..Len(response.items) :
                parse_event_raises(response.items[i], cfg.linkprefs)
    THEN [raised |-> TRUE, exc |-> "KeyError"]
    ELSE [raised |-> FALSE,
          value |-> [i \in 1..Len(response.items) |->
                        parse_event(response.items[i], cfg.linkprefs)]]

\* format_events(config, events); now1 and now2 are the dates the two
\* renderers read off the clock
format_events(cfg, evs, now1, now2) ==
    LET plaintext == generate_plaintext_email(evs, cfg.plaintext_template,
                        cfg.plaintext_summary, cfg.plaintext_details, now1)
        html == generate_html_email(evs, cfg.html_template,
                        cfg.html_summary, cfg.html_details, now2)
    IN  [plaintext |-> plaintext,
         html |-> html,
         email |-> compose_email(cfg.sender, cfg.recipient, cfg.subject, html, plaintext)]

\* main's statements with the mail sent before the copies are saved
main_deliver_send_first(cfg, docs) ==
    (IF cfg.no_send THEN <<>> ELSE send_email(docs.email, cfg))
    \o (IF cfg.textfile
        THEN << [op |-> "write", file |-> "textfile", data |-> docs.plaintext] >> ELSE <<>>)
    \o (IF cfg.htmlfile
        THEN << [op |-> "write", file |-> "htmlfile", data |-> docs.html] >> ELSE <<>>)
    \o (IF cfg.emailfile
        THEN << [op |-> "write", file |-> "emailfile", data |-> [as_string |-> docs.email]] >>
        ELSE <<>>)

\* the statements of main after format_events: the copies, then the mail
main_deliver(cfg, docs) ==
    (IF cfg.textfile
     THEN << [op |-> "write", file |-> "textfile", data |-> docs.plaintext] >> ELSE <<>>)
    \o (IF cfg.htmlfile
        THEN << [op |-> "write", file |-> "htmlfile", data |-> docs.html] >> ELSE <<>>)
    \o (IF cfg.emailfile
        THEN << [op |-> "write", file |-> "emailfile", data |-> [as_string |-> docs.email]] >>
        ELSE <<>>)
    \o (IF cfg.no_send THEN <<>> ELSE send_email(docs.email, cfg))

(***************************************************************************)
(* WSGI application.                                                       *)
(***************************************************************************)
\* os.path.splitext(p) (posixpath: sep '/', extsep '.')
splitext(p) ==
    LET sepIndex == rfind(p, "/")
        dotIndex == rfind(p, ".")
    IN  IF /\ dotIndex > sepIndex
           /\ \E k \in (sepIndex + 1)..(dotIndex - 1) : p[k] # "."
        THEN <<SubSeq(p, 1, dotIndex - 1), SubSeq(p, dotIndex, Len(p))>>
        ELSE <<p, <<>> >>

ExtHtml == <<".","h","t","m","l">>

ExtTxt == <<".","t","x","t">>

ExtEml == <<".","e","m","l">>

\* WSGIApplication._html_msg(heading, details)
html_msg(heading, details) == [heading |-> heading, details |-> details]

\* the index page of process_request: one link per calendar and extension
index_page(configs) ==
    html_msg("Calendar email digest",
             {c \o e : c \in DOMAIN configs, e \in {ExtTxt, ExtHtml, ExtEml}})

\* WSGIApplication.process_request(environ, start_response): the triple it
\* returns or the exception that leaves it, and the documents format_events
\* built on the way
process_request(configs, env, response, now1, now2) ==
    LET path == lstrip_chars(env.PATH_INFO, {"/"})
        cal == splitext(path)[1]
        fmt == splitext(path)[2]
        html_type == <<"text/html; charset=UTF-8">>
    IN  IF path = <<>>
        THEN [raised |-> FALSE, status |-> "200 OK", headers |-> html_type,
              body |-> index_page(configs), generated |-> <<>>]
        ELSE IF cal \notin DOMAIN configs \/ fmt = <<>>
        THEN [raised |-> FALSE, status |-> "404 Not found", headers |-> html_type,
              body |-> html_msg("404 Not found", <<>>), generated |-> <<>>]
        ELSE LET got == get_events(configs[cal], response)
             IN  IF got.raised
                 THEN [raised |-> TRUE, exc |-> got.exc, generated |-> <<>>]
                 ELSE LET docs == format_events(configs[cal], got.value, now1, now2)
                      IN  IF fmt = ExtHtml
                          THEN [raised |-> FALSE, status |-> "200 OK", headers |-> html_type,
                                body |-> docs.html, generated |-> <<docs>>]
                          ELSE IF fmt = ExtTxt
                          THEN [raised |-> FALSE, status |-> "200 OK",
                                headers |-> <<"text/plain; charset=UTF-8">>,
                                body |-> docs.plaintext, generated |-> <<docs>>]
                          ELSE IF fmt = ExtEml
                          THEN [raised |-> FALSE, status |-> "200 OK",
                                headers |-> <<"multipart/alternative">>,
                                body |-> [as_string |-> docs.email],
                                generated |-> <<docs>>]
                          ELSE [raised |-> TRUE, exc |-> "RuntimeError: Unreachable code reached.",
                                generated |-> <<docs>>]

\* WSGIApplication.__call__(environ, start_response): the response started
wsgi_call(configs, env, response, now1, now2) ==
    LET r == process_request(configs, env, response, now1, now2)
    IN  IF r.raised
        THEN [kind |-> "response", status |-> "500 Internal server error",
              headers |-> <<"text/html; charset=UTF-8", "Content-Length">>,
              body |-> html_msg("500 Internal server error",
                                "Please contact the server administrator."),
              exc |-> r.exc]
        ELSE [kind |-> "response", status |-> r.status,
              headers |-> r.headers \o <<"Content-Length">>,
              body |-> r.body, exc |-> "none"]

(***************************************************************************)
(* Inputs of the model: texts the calendar API and the configuration may   *)
(* hold, spelled character by character.                                   *)
(***************************************************************************)
RECURSIVE SeqsUpTo(_, _)
\* the sequences over S of length at most n
SeqsUpTo(S, n) ==
    IF n = 0 THEN {<<>>}
    ELSE LET shorter == SeqsUpTo(S, n - 1)
         IN  shorter \cup {Append(q, x) : q \in shorter, x \in S}

RECURSIVE JoinLines(_)
\* the description whose lines are ls: '\n'.join(ls)
JoinLines(ls) ==
    IF ls = <<>> THEN <<>>
    ELSE IF Len(ls) = 1 THEN ls[1]
    ELSE ls[1] \o <<"\n">> \o JoinLines(Tail(ls))

Date0501 == <<"2","0","2","4","-","0","5","-","0","1">>

Date0503 == <<"2","0","2","4","-","0","5","-","0","3">>

DateTime0501 == Date0501 \o <<"T","0","9",":","0","0",":","0","0","Z">>

DateTime0503 == Date0503 \o <<"T","1","7",":","3","0",":","0","0","Z">>

\* labels a description line may carry before its colon
Labels == { <<"w">>, <<"H"," ">>, <<"x">> }

\* what may follow the colon: a URL, a URL and a final period, a URL ending
\* a sentence in mid-line, and no URL at all
Bodies ==
    { <<" ","h","t","t","p",":","/","/","a">>,
      <<" ","h","t","t","p","s",":","/","/","b",".">>,
      <<" ","h","t","t","p",":","/","/","c","."," ","z">>,
      <<" ","s","e","e">> }

\* the lines of a description: labelled lines, an indented plain line, an empty line
DescLines ==
    {l \o <<":">> \o b : l \in Labels, b \in Bodies} \cup { <<" ","z">>, <<>> }

Descriptions == {JoinLines(ls) : ls \in SeqsUpTo(DescLines, MaxLines)}

\* config.linkprefs as get_config leaves it: stripped, case kept
LinkPrefLists ==
    { <<>>, << <<"w">> >>, << <<"w">>, <<"h">> >>, << <<"h">>, <<"w">> >>,
      << <<"W">>, <<"h">> >> }

HtmlLink == <<"h","t","t","p","s",":","/","/","g","/","e">>

\* the start and end of a raw event: an all-day date or a date-time, each way round
TimeSpecPairs ==
    { << [date |-> Date0501], [dateTime |-> DateTime0503] >>,
      << [dateTime |-> DateTime0501], [date |-> Date0501] >> }

\* raw events as the calendar API returns them: description is optional.
\* The dates do not bear on the link, so they vary on the events without a
\* description only.
UrlRawEvents ==
    { [start |-> t[1], end |-> t[2], summary |-> <<" ","T">>, htmlLink |-> HtmlLink]
        : t \in TimeSpecPairs }
    \cup
    { [start |-> [date |-> Date0501], end |-> [dateTime |-> DateTime0503],
       summary |-> <<" ","T">>, htmlLink |-> HtmlLink, description |-> d]
        : d \in Descriptions }

NoEnviron == [PATH_INFO |-> <<>>]

NoResult == [kind |-> "none"]

(***************************************************************************)
(* parse_event applied to one raw event.                                   *)
(***************************************************************************)
InitParse ==
    /\ mode = "parse_event"
    /\ pc = "start"
    /\ raw \in UrlRawEvents
    /\ config \in {[linkprefs |-> l] : l \in LinkPrefLists}
    /\ environ = NoEnviron
    /\ events = <<>>
    /\ generated = <<>>
    /\ io = <<>>
    /\ result = NoResult

ParseEvent ==
    /\ mode = "parse_event"
    /\ pc = "start"
    /\ pc' = "done"
    /\ IF parse_event_raises(raw, config.linkprefs)
       THEN /\ result' = [kind |-> "raise", exc |-> "KeyError"]
            /\ events' = events
       ELSE /\ result' = [kind |-> "return"]
            /\ events' = <<parse_event(raw, config.linkprefs)>>
    /\ UNCHANGED <<mode, raw, config, environ, generated, io>>

(***************************************************************************)
(* Inputs of the two entry points.                                         *)
(***************************************************************************)
\* an all-day event of one day, with a labelled link in its description
ApiEventA ==
    [start |-> [date |-> Date0501], end |-> [date |-> Date0501],
     summary |-> <<"A"," ">>, htmlLink |-> HtmlLink,
     description |-> <<"w",":"," ","h","t","t","p",":","/","/","a">>]

\* a timed event over three days, without a description
ApiEventB ==
    [start |-> [dateTime |-> DateTime0501], end |-> [dateTime |-> DateTime0503],
     summary |-> <<"B">>, htmlLink |-> HtmlLink]

\* events that lack a required field
ApiEventNoSummary ==
    [start |-> [date |-> Date0501], end |-> [date |-> Date0503], htmlLink |-> HtmlLink]

ApiEventNoStart ==
    [end |-> [date |-> Date0503], summary |-> <<"C">>, htmlLink |-> HtmlLink]

ApiEventNoEnd ==
    [start |-> [date |-> Date0501], summary |-> <<"D">>, htmlLink |-> HtmlLink]

WellFormedApiEvents == {ApiEventA, ApiEventB}

MalformedApiEvents == {ApiEventNoSummary, ApiEventNoStart, ApiEventNoEnd}

\* json.loads(text) in get_events: a list of items, or an error body without 'items'
ApiResponses ==
    {[items |-> q] : q \in SeqsUpTo(WellFormedApiEvents \cup MalformedApiEvents, MaxEvents)}
    \cup {[error |-> "forbidden"]}

\* what get_config returns; a file option is TRUE when the file was given.
\* The SMTP username is only read when mail is sent, so it varies without
\* no_send only.
Configs ==
    {[linkprefs |-> << <<"w">>, <<"h">> >>,
      textfile |-> t, htmlfile |-> h, emailfile |-> e, no_send |-> n[1], username |-> n[2],
      sender |-> "sender", recipient |-> "recipient", subject |-> "subject",
      plaintext_template |-> "plaintext_template",
      plaintext_summary |-> "plaintext_summary",
      plaintext_details |-> "plaintext_details",
      html_template |-> "html_template",
      html_summary |-> "html_summary",
      html_details |-> "html_details"]
        : t \in BOOLEAN, h \in BOOLEAN, e \in BOOLEAN,
          n \in {<<FALSE, FALSE>>, <<FALSE, TRUE>>, <<TRUE, FALSE>>}}

\* get_calendar_configs passes --no-send for every calendar
WsgiConfig ==
    CHOOSE c \in Configs :
        c.no_send /\ ~c.textfile /\ ~c.htmlfile /\ ~c.emailfile /\ ~c.username

\* self.configs: the calendars named by wsgi_calendars
WsgiConfigs == [c \in { <<"c">> } |-> WsgiConfig]

\* PATH_INFO of a request
WsgiPaths ==
    { <<>>, <<"/">>,
      <<"/","c">> \o ExtHtml, <<"/","c">> \o ExtTxt, <<"/","c">> \o ExtEml,
      <<"/","/","c">> \o ExtTxt,
      <<"/","c",".","p","d","f">>, <<"/","c",".">>, <<"/","c">>,
      <<"/","d">> \o ExtHtml, <<"/">> \o ExtHtml }

\* the dates datetime.now() may give, in the order of time
ClockDates == <<Date0501, Date0503>>

(***************************************************************************)
(* main(config)                                                            *)
(***************************************************************************)
InitMain ==
    /\ mode = "main"
    /\ pc = "start"
    /\ raw \in ApiResponses
    /\ config \in Configs
    /\ environ = NoEnviron
    /\ events = <<>>
    /\ generated = <<>>
    /\ io = <<>>
    /\ result = NoResult

Main ==
    /\ mode = "main"
    /\ pc = "start"
    /\ pc' = "done"
    /\ LET got == get_events(config, raw)
       IN  IF got.raised
           THEN /\ result' = [kind |-> "raise", exc |-> got.exc]
                /\ UNCHANGED <<events, generated, io>>
           ELSE IF got.value = <<>>
           THEN /\ result' = [kind |-> "return", rc |-> 0]
                /\ events' = got.value
                /\ UNCHANGED <<generated, io>>
           ELSE \E i \in 1..Len(ClockDates) : \E j \in i..Len(ClockDates) :
                    LET docs == format_events(config, got.value,
                                              ClockDates[i], ClockDates[j])
                    IN  /\ events' = got.value
                        /\ generated' = <<docs>>
                        /\ io' = main_deliver(config, docs)
                        /\ result' = [kind |-> "return", rc |-> 0]
    /\ UNCHANGED <<mode, raw, config, environ>>

(***************************************************************************)
(* WSGIApplication.__call__(environ, start_response)                       *)
(***************************************************************************)
InitWsgi ==
    /\ mode = "wsgi"
    /\ pc = "start"
    /\ raw \in ApiResponses
    /\ config = WsgiConfig
    /\ environ \in {[PATH_INFO |-> p] : p \in WsgiPaths}
    /\ events = <<>>
    /\ generated = <<>>
    /\ io = <<>>
    /\ result = NoResult

WsgiCall ==
    /\ mode = "wsgi"
    /\ pc = "start"
    /\ pc' = "done"
    /\ \E i \in 1..Len(ClockDates) : \E j \in i..Len(ClockDates) :
          /\ result' = wsgi_call(WsgiConfigs, environ, raw, ClockDates[i], ClockDates[j])
          /\ generated' = process_request(WsgiConfigs, environ, raw,
                                          ClockDates[i], ClockDates[j]).generated
    /\ UNCHANGED <<mode, raw, config, environ, events, io>>

Init == InitParse \/ InitMain \/ InitWsgi

Next == ParseEvent \/ Main \/ WsgiCall

Spec == Init /\ [][Next]_vars

(***************************************************************************)
(* Properties of the link extractor (parse_url inside parse_event).        *)
(***************************************************************************)
\* parse_event has returned an Event
Parsed == mode = "parse_event" /\ pc = "done" /\ result.kind = "return"

\* the stripped lines parse_url scans
TheLines == url_lines(raw)

\* line j is labelled with term i and holds a URL after its colon
Yields(i, j) ==
    /\ label_matches(TheLines[j], config.linkprefs[i])
    /\ line_search(TheLines[j]).found

\* the lines on which term i yields a URL
YieldLines(i) == {j \in 1..Len(TheLines) : Yields(i, j)}

\* the smallest element of a non-empty set of numbers
Min(S) == CHOOSE x \in S : \A y \in S : x <= y

\* s without its j-th element
RemoveAt(s, j) == SubSeq(s, 1, j - 1) \o SubSeq(s, j + 1, Len(s))

\* C1: priority dominates position.  The url of the Event is taken from the
\* first line (in line order) of the first term (in priority order) that
\* yields a URL on any line, wherever the lines of later terms stand.
C1_PriorityDominatesPosition ==
    Parsed =>
        \A i \in 1..Len(config.linkprefs) :
            (YieldLines(i) # {} /\ \A h \in 1..(i - 1) : YieldLines(h) = {})
                => events[1].url = line_search(TheLines[Min(YieldLines(i))]).group0

\* C1 witness: a lower-priority term yields on line 1, the higher-priority
\* term on line 2 with another URL, and the Event carries the one of line 2.
C1_Witness ==
    /\ Parsed
    /\ Len(config.linkprefs) = 2
    /\ Len(TheLines) = 2
    /\ Yields(2, 1)
    /\ Yields(1, 2)
    /\ ~Yields(1, 1)
    /\ line_search(TheLines[1]).group0 # line_search(TheLines[2]).group0
    /\ events[1].url = line_search(TheLines[2]).group0

\* C2: the extracted link is exactly the URL, group 1 of the pattern: the
\* scheme and the non-whitespace run, without the period that ends a
\* sentence and without the whitespace after it.
C2_ExtractedIsExactlyTheUrl ==
    Parsed =>
        \A i \in 1..Len(config.linkprefs) :
            (YieldLines(i) # {} /\ \A h \in 1..(i - 1) : YieldLines(h) = {})
                => /\ events[1].url = line_search(TheLines[Min(YieldLines(i))]).group1
                   /\ events[1].url[Len(events[1].url)] \notin Whitespace

\* C3: the url of every Event is non-empty: htmlLink when no term yields a
\* URL (also without a description), otherwise the text parse_url extracted
\* from a yielding line, which starts with the scheme.
C3_UrlNonEmpty ==
    Parsed =>
        /\ events[1].url # <<>>
        /\ IF \E i \in 1..Len(config.linkprefs) : YieldLines(i) # {}
           THEN /\ SchemeLenAt(events[1].url, 1) > 0
                /\ \E i \in 1..Len(config.linkprefs) : \E j \in YieldLines(i) :
                      events[1].url = line_search(TheLines[j]).group0
           ELSE events[1].url = raw.htmlLink

\* C3 witness: terms are configured and the description has a labelled line,
\* but no URL: the Event carries htmlLink.
C3_Witness ==
    /\ Parsed
    /\ \E i \in 1..Len(config.linkprefs) : \E j \in 1..Len(TheLines) :
          label_matches(TheLines[j], config.linkprefs[i])
    /\ \A i \in 1..Len(config.linkprefs) : YieldLines(i) = {}
    /\ events[1].url = raw.htmlLink
    /\ events[1].url # <<>>

\* a labelled line of some term that holds no URL
Miss(j) ==
    /\ \E i \in 1..Len(config.linkprefs) : label_matches(TheLines[j], config.linkprefs[i])
    /\ ~line_search(TheLines[j]).found

\* what parse_url gives for the lines ls
UrlOfLines(ls) ==
    LET m == scan(ls, config.linkprefs, 1, 1)
    IN  IF m.found THEN m.group0 ELSE raw.htmlLink

\* C4: a labelled line without a URL does not end the scan: the url is what
\* it would be with that line deleted, and whenever some (term, line) pair
\* yields a URL the url comes from such a pair, not from the fallback.
C4_MissDoesNotEndScan ==
    Parsed =>
        /\ \A j \in 1..Len(TheLines) :
              Miss(j) => events[1].url = UrlOfLines(RemoveAt(TheLines, j))
        /\ (\E i \in 1..Len(config.linkprefs) : YieldLines(i) # {})
              => \E i \in 1..Len(config.linkprefs) : \E j \in YieldLines(i) :
                    events[1].url = line_search(TheLines[j]).group0

\* C4 witness: the first line carries the first term's label and no URL, the
\* second line the same label and a URL, which the Event carries.
C4_Witness ==
    /\ Parsed
    /\ Len(config.linkprefs) >= 1
    /\ Len(TheLines) = 2
    /\ label_matches(TheLines[1], config.linkprefs[1])
    /\ Miss(1)
    /\ Yields(1, 2)
    /\ events[1].url = line_search(TheLines[2]).group0
    /\ events[1].url # raw.htmlLink

(***************************************************************************)
(* Properties of the entry points and the renderers.                       *)
(***************************************************************************)
\* the run of main or the request is over
Finished == mode \in {"main", "wsgi"} /\ pc = "done"

\* the calendar returned the list of items its response holds
HasItems == "items" \in DOMAIN raw

\* item i of the response lacks summary, start or end
LacksRequired(i) ==
    \/ "summary" \notin DOMAIN raw.items[i]
    \/ "start" \notin DOMAIN raw.items[i]
    \/ "end" \notin DOMAIN raw.items[i]

\* C5: with zero events nothing is generated and nothing delivered, on the
\* command-line path and on the WSGI path alike (stated for the runs and
\* requests that end without an exception).
C5_EmptyProducesNothing ==
    (Finished /\ HasItems /\ raw.items = <<>>
        /\ (mode = "wsgi" => result.exc = "none"))
        => /\ generated = <<>>
           /\ io = <<>>

\* C6: one item without summary, start or end aborts the whole build: main
\* leaves by an exception, no document is generated, nothing written or sent.
C6_MalformedAborts ==
    (Finished /\ HasItems /\ \E i \in 1..Len(raw.items) : LacksRequired(i))
        => /\ generated = <<>>
           /\ io = <<>>
           /\ (mode = "main" => result.kind = "raise")
           /\ (mode = "wsgi" => result.status # "200 OK" \/ result.body = index_page(WsgiConfigs))

\* C6 witness: a malformed item between two well-formed ones, copies and
\* mail requested, and main left by KeyError with nothing done.
C6_Witness ==
    /\ mode = "main" /\ pc = "done"
    /\ HasItems /\ Len(raw.items) = 3
    /\ ~LacksRequired(1) /\ LacksRequired(2) /\ ~LacksRequired(3)
    /\ config.textfile /\ config.htmlfile /\ config.emailfile /\ ~config.no_send
    /\ result = [kind |-> "raise", exc |-> "KeyError"]
    /\ generated = <<>> /\ io = <<>>

\* the events the documents were rendered from, in the order of the response
RenderedEvents == get_events(config, raw).value

\* the k-th fragment of a section of a document
Fragment(doc, section, k) == doc.args[section].parts[k]

\* fragment f renders event e: the Event's own fields are passed on as they are
RendersEvent(f, e) ==
    \A key \in {"start", "end", "title", "summary", "url"} : f.args[key] = e[key]

\* C7 as stated: in both formats the k-th summary fragment and the k-th
\* detail fragment are given index k.
C7_IndexInEveryFragment ==
    (Finished /\ generated # <<>>) =>
        \A k \in 1..Len(RenderedEvents) :
            \A doc \in {generated[1].plaintext, generated[1].html} :
                \A section \in {"summary", "details"} :
                    /\ "index" \in DOMAIN Fragment(doc, section, k).args
                    /\ Fragment(doc, section, k).args.index = k

\* C7 amended: plaintext summary, plaintext detail and HTML detail fragments
\* of the event at position k are given index k; the HTML summary fragment
\* is given no index and is the k-th of its section; every section has one
\* fragment per event, the k-th rendering the k-th event.
C7_IndexConsistency ==
    (Finished /\ generated # <<>>) =>
        /\ \A doc \in {generated[1].plaintext, generated[1].html} :
              \A section \in {"summary", "details"} :
                  /\ Len(doc.args[section].parts) = Len(RenderedEvents)
                  /\ \A k \in 1..Len(RenderedEvents) :
                        RendersEvent(Fragment(doc, section, k), RenderedEvents[k])
        /\ \A k \in 1..Len(RenderedEvents) :
              /\ Fragment(generated[1].plaintext, "summary", k).args.index = k
              /\ Fragment(generated[1].plaintext, "details", k).args.index = k
              /\ Fragment(generated[1].html, "details", k).args.index = k
              /\ "index" \notin DOMAIN Fragment(generated[1].html, "summary", k).args

\* C7 witness: a digest of three events, the second unlike the first, whose
\* plaintext and HTML detail fragments numbered 2 render the second event.
C7_Witness ==
    /\ mode = "main" /\ pc = "done" /\ generated # <<>>
    /\ Len(events) = 3
    /\ events[1] # events[2]
    /\ Fragment(generated[1].plaintext, "summary", 2).args.index = 2
    /\ Fragment(generated[1].html, "details", 2).args.index = 2
    /\ Fragment(generated[1].html, "details", 2).args.title = events[2].title
    /\ Fragment(generated[1].plaintext, "summary", 2).args.title = events[2].title

\* the datespec the claim describes, with the separator spelled out
ExpectedDatespec(e, sep) ==
    IF e.start = e.end THEN e.start ELSE e.start \o sep \o e.end

\* C8: every fragment's datespec is the single date when start equals end,
\* else start, separator, end, the separator being " -- " in the plaintext
\* fragments and " &ndash; " in the HTML fragments.
C8_Datespec ==
    (Finished /\ generated # <<>>) =>
        \A k \in 1..Len(RenderedEvents) : \A section \in {"summary", "details"} :
            /\ Fragment(generated[1].plaintext, section, k).args.datespec
                  = ExpectedDatespec(RenderedEvents[k], <<" ","-","-"," ">>)
            /\ Fragment(generated[1].html, section, k).args.datespec
                  = ExpectedDatespec(RenderedEvents[k],
                                     <<" ","&","n","d","a","s","h",";"," ">>)

\* C8 witness: a one-day event and a three-day event rendered in one digest,
\* the first with the single date, the second with the two ranges.
C8_Witness ==
    /\ mode = "main" /\ pc = "done" /\ generated # <<>>
    /\ Len(events) >= 2
    /\ events[1].start = events[1].end
    /\ events[2].start # events[2].end
    /\ Fragment(generated[1].plaintext, "details", 1).args.datespec = Date0501
    /\ Fragment(generated[1].plaintext, "summary", 2).args.datespec
          = Date0501 \o <<" ","-","-"," ">> \o Date0503
    /\ Fragment(generated[1].html, "summary", 2).args.datespec
          = Date0501 \o <<" ","&","n","d","a","s","h",";"," ">> \o Date0503

\* the request names a configured calendar and carries an extension
NamesCalendarWithExtension ==
    LET path == lstrip_chars(environ.PATH_INFO, {"/"})
    IN  /\ path # <<>>
        /\ splitext(path)[1] \in DOMAIN WsgiConfigs
        /\ splitext(path)[2] # <<>>

\* C9: the last raise of process_request is never reached: a request that
\* names a configured calendar with an extension, the events fetched, is
\* answered 200 (stated for responses that hold at least one event).
C9_LastRaiseUnreachable ==
    (mode = "wsgi" /\ pc = "done" /\ HasItems /\ raw.items # <<>>) =>
        /\ result.exc # "RuntimeError: Unreachable code reached."
        /\ (NamesCalendarWithExtension /\ ~get_events(config, raw).raised)
              => result.status = "200 OK"

\* the positions in main's effects where the mail is handed to the server
Sends == {k \in DOMAIN io : io[k].op = "sendmail"}

\* the copies the configuration asks for
RequestedCopies ==
    {f \in {"textfile", "htmlfile", "emailfile"} : config[f]}

\* copy f was written before position k of main's effects
WrittenBefore(f, k) ==
    \E w \in 1..(k - 1) : io[w].op = "write" /\ io[w].file = f

====
